---- MODULE Spec2Model ----
(***************************************************************************)
(* Model of cli.py: the response-time report for one Zendesk ticket.       *)
(*                                                                         *)
(* Time is counted in whole hours from a Monday 00:00, so that             *)
(* weekday(t) = (t \div 24) % 7 with Monday = 0, as datetime.weekday().    *)
(* A calendar date is the day number t \div 24.                            *)
(***************************************************************************)
EXTENDS Integers, Sequences, FiniteSets, TLC

VARIABLES
    ticket_url,              \* cli argument: the URL path, as its segments
    output,                  \* cli option --output (None when not given)
    environ,                 \* os.environ: the names that are set
    pc,                      \* position of cli
    error,                   \* the exception that ended the run ("" while none)
    stdout,                  \* the click.secho messages, in order
    outfile,                 \* the output file: None until opened, then its rows
    started,                 \* has the body of responses() begun to run
    fetched,                 \* the comments the Comment Source has returned so far
    exhausted,               \* the Comment Source has raised StopIteration
    pulled,                  \* the Responses next(self.responses) has returned
    current,                 \* Evaluate.__iter__ local
    prev,                    \* Evaluate.__iter__ local
    last_customer_response,  \* Evaluate.__iter__ local
    evaluations,             \* the Evaulations yielded by Evaluate.__iter__
    rt,                      \* a ResponseTime under test (weekends specification)
    wk,                      \* the dates weekends() produced for rt (None before)
    gens,                    \* the generators that calls of rt.weekends() returned
    again                    \* what a second iteration of the Evaluate yielded

vars == <<ticket_url, output, environ, pc, error, stdout, outfile, started,
          fetched, exhausted, pulled, current, prev, last_customer_response,
          evaluations, rt, wk, gens, again>>

cliVars == <<ticket_url, output, environ, pc, error, stdout, outfile, started,
             fetched, exhausted, pulled, current, prev,
             last_customer_response, evaluations>>

(***************************************************************************)
(* Bounds                                                                  *)
(***************************************************************************)
\* the largest number of comments the Comment Source returns for the ticket
MaxComments == 4
\* the weekends specification draws asked_at and answered_at from MaxDay days
MaxDay == 9
\* the generators specification draws them from MaxRestartDay days, from a
\* Friday on
MaxRestartDay == 3

(***************************************************************************)
(* Values                                                                  *)
(***************************************************************************)
None == [none |-> TRUE]

HoursPerDay == 24

\* the instants the comments of the ticket are stamped with
Fri17 == 4 * HoursPerDay + 17
Mon09 == 7 * HoursPerDay + 9
Stamps == {Fri17, Mon09}

ROLES_AGENT == {"agent", "admin"}

\* the authors of the ticket's comments, as zenpy reports them
Authors ==
    { [email |-> "ann@support", role |-> "agent"],
      [email |-> "bob@support", role |-> "admin"],
      [email |-> "cat@example", role |-> "end-user"] }

CredentialNames == {"ZENDESK_EMAIL", "ZENDESK_TOKEN", "ZENDESK_SUBDOMAIN"}

\* the paths a ticket URL is given with
TicketUrls ==
    { <<"agent", "tickets", "123">>,
      <<"agent", "tickets", "abc">>,
      <<"tickets", "123">> }

\* the values of --output: a path is its root and its extension
Outputs ==
    { None,
      [root |-> "report", ext |-> ".csv"],
      [root |-> "report", ext |-> ".txt"] }

\* Ticket.PATH_EXPRESSION: ^/agent/tickets/(?P<id>\d+)$ on the path's segments
Digits == {"123"}
PATH_EXPRESSION(path) ==
    /\ Len(path) = 3
    /\ path[1] = "agent"
    /\ path[2] = "tickets"
    /\ path[3] \in Digits

\* Ticket.from_url: the ticket (its id) or None when the assertion fails
from_url(url) ==
    IF PATH_EXPRESSION(url) THEN [id |-> url[3]] ELSE None

\* User.from_zenpyuser
from_zenpyuser(author) == [email |-> author.email, role |-> author.role]

\* User.is_agent
is_agent(user) == user.role \in ROLES_AGENT

\* a check that takes every path for a .csv path
splitext_ext_any(path) == ".csv"

\* os.path.splitext(out)[1]
splitext_ext(path) == path.ext

(***************************************************************************)
(* A created_at string is the sequence of its parts: the ISO date-time     *)
(* text (one part, named by the instant it denotes) and the characters     *)
(* after it.  "2020-01-03T17:00:00Z" is <<[iso |-> Fri17], [ch |-> "Z"]>>. *)
(***************************************************************************)
IsoPart(t) == [iso |-> t]
ChPart(c) == [ch |-> c]
WellFormed(t) == <<IsoPart(t), ChPart("Z")>>

\* the created_at strings the Comment Source reports: with the trailing Z,
\* and one that lacks it
CreatedAts == {WellFormed(t) : t \in Stamps} \cup {<<IsoPart(Fri17)>>}

Comments ==
    [public : BOOLEAN, author : Authors, created_at : CreatedAts]

\* a responses() that forgets the test and passes internal comments on
is_public_any(c) == TRUE

\* the test of responses(): if c.public
is_public(c) == c.public

\* created_at[:-1]
Chip(s) == IF Len(s) = 0 THEN s ELSE SubSeq(s, 1, Len(s) - 1)

\* datetime.fromisoformat accepts s (it raises ValueError otherwise)
IsIsoFormat(s) == Len(s) = 1 /\ "iso" \in DOMAIN s[1]

\* datetime.fromisoformat of a string it accepts
fromisoformat(s) == s[1].iso

\* Response.__post_init__; oid is the identity of the object
Response(created_at, author, oid) ==
    [oid          |-> oid,
     created_at   |-> created_at,
     responded_at |-> fromisoformat(Chip(created_at)),
     user         |-> from_zenpyuser(author)]

(***************************************************************************)
(* ResponseTime                                                            *)
(***************************************************************************)
\* a ResponseTime that takes its two timestamps the other way round
ResponseTime_Crossed(asked_at, answered_at) ==
    [asked_at    |-> answered_at,
     answered_at |-> asked_at,
     duration    |-> asked_at - answered_at]

\* a __post_init__ that subtracts the wrong way round
ResponseTime_Swapped(asked_at, answered_at) ==
    [asked_at    |-> asked_at,
     answered_at |-> answered_at,
     duration    |-> asked_at - answered_at]

\* ResponseTime.__post_init__
ResponseTime(asked_at, answered_at) ==
    [asked_at    |-> asked_at,
     answered_at |-> answered_at,
     duration    |-> answered_at - asked_at]

\* a days that rounds towards zero
days_truncated(duration) ==
    IF duration >= 0
    THEN duration \div HoursPerDay
    ELSE -((-duration) \div HoursPerDay)

\* timedelta.days: the floor of the duration in days
days(duration) == duration \div HoursPerDay

\* datetime.weekday and datetime.date
weekday(t) == (t \div HoursPerDay) % 7
date(t) == t \div HoursPerDay

\* the body of the loop of ResponseTime.weekends for i = from .. days
RECURSIVE weekends_from(_, _)
weekends_from(r, i) ==
    IF i >= days(r.duration) + 1
    THEN <<>>
    ELSE LET dt == r.asked_at + i * HoursPerDay
             is_a_weekend == weekday(dt) >= 5
         IN  (IF is_a_weekend THEN <<date(dt)>> ELSE <<>>)
                 \o weekends_from(r, i + 1)

\* ResponseTime.weekends, as the list of the dates it yields
weekends(r) == weekends_from(r, 0)

\* ResponseTime.formula
formula(r) == <<r.answered_at, "-", r.asked_at, "=", r.duration>>

(***************************************************************************)
(* Evaulation                                                              *)
(***************************************************************************)
FIELDS == <<"email", "user type", "commented at",
            "formula", "weekends", "response time">>

Evaulation(response, time_taken) ==
    [response |-> response, time_taken |-> time_taken]

\* an as_record whose test is true only of a positive duration
as_record_positive(e) ==
    LET base == [k \in {"email", "user type", "commented at"} |->
                    CASE k = "email"        -> <<e.response.user.email>>
                      [] k = "user type"    -> IF is_agent(e.response.user)
                                               THEN <<"agent">>
                                               ELSE <<"customer">>
                      [] k = "commented at" -> <<e.response.responded_at>>]
        more == [k \in {"formula", "weekends", "response time"} |->
                    CASE k = "formula"       -> formula(e.time_taken)
                      [] k = "weekends"      -> weekends(e.time_taken)
                      [] k = "response time" -> <<e.time_taken.duration>>]
    IN  IF e.time_taken # None /\ e.time_taken.duration > 0
        THEN base @@ more
        ELSE base

\* Evaulation.as_record
as_record(e) ==
    LET base == [k \in {"email", "user type", "commented at"} |->
                    CASE k = "email"        -> <<e.response.user.email>>
                      [] k = "user type"    -> IF is_agent(e.response.user)
                                               THEN <<"agent">>
                                               ELSE <<"customer">>
                      [] k = "commented at" -> <<e.response.responded_at>>]
        more == [k \in {"formula", "weekends", "response time"} |->
                    CASE k = "formula"       -> formula(e.time_taken)
                      [] k = "weekends"      -> weekends(e.time_taken)
                      [] k = "response time" -> <<e.time_taken.duration>>]
    IN  IF e.time_taken # None THEN base @@ more ELSE base

\* csv.DictWriter.writerow: a missing key gives the empty cell
writerow(record) ==
    [i \in 1..Len(FIELDS) |->
        IF FIELDS[i] \in DOMAIN record THEN record[FIELDS[i]] ELSE <<>>]

\* csv.DictWriter.writeheader
writeheader == [i \in 1..Len(FIELDS) |-> <<FIELDS[i]>>]

(***************************************************************************)
(* The run of cli                                                          *)
(***************************************************************************)
Init ==
    /\ ticket_url \in TicketUrls
    /\ output \in Outputs
    /\ environ \in SUBSET CredentialNames
    /\ pc = "from_url"
    /\ error = ""
    /\ stdout = <<>>
    /\ outfile = None
    /\ started = FALSE
    /\ fetched = <<>>
    /\ exhausted = FALSE
    /\ pulled = <<>>
    /\ current = None
    /\ prev = None
    /\ last_customer_response = None
    /\ evaluations = <<>>
    /\ rt = None
    /\ wk = None
    /\ gens = <<>>
    /\ again = None

\* leaving the with block closes the file, on an exception too
Closed(f) == IF f = None THEN None ELSE [f EXCEPT !.closed = TRUE]

\* an unhandled exception ends the run
Raise(e) ==
    /\ pc' = "failed"
    /\ error' = e
    /\ outfile' = Closed(outfile)

\* out = output or f"{ticket.id}.csv"
OutPath ==
    IF output # None
    THEN output
    ELSE [root |-> from_url(ticket_url).id, ext |-> ".csv"]

\* ticket = Ticket.from_url(ticket_url)
FromUrl ==
    /\ pc = "from_url"
    /\ IF from_url(ticket_url) = None
       THEN Raise("AssertionError")
       ELSE pc' = "echo_evaluating" /\ UNCHANGED <<error, outfile>>
    /\ UNCHANGED <<ticket_url, output, environ, stdout, started, fetched,
                   exhausted, pulled, current, prev, last_customer_response,
                   evaluations, rt, wk, gens, again>>

\* click.secho(f"Evaluating {ticket_url}")
EchoEvaluating ==
    /\ pc = "echo_evaluating"
    /\ stdout' = Append(stdout, "Evaluating")
    /\ pc' = "construct"
    /\ UNCHANGED <<ticket_url, output, environ, error, outfile, started,
                   fetched, exhausted, pulled, current, prev,
                   last_customer_response, evaluations, rt, wk, gens, again>>

\* evaluated = Evaluate(responses(ticket.id)): responses is a generator
\* function, so the call runs none of its body
Construct ==
    /\ pc = "construct"
    /\ pc' = "echo_evaluated"
    /\ UNCHANGED <<ticket_url, output, environ, error, stdout, outfile,
                   started, fetched, exhausted, pulled, current, prev,
                   last_customer_response, evaluations, rt, wk, gens, again>>

\* click.secho(f"Evaluated {ticket_url}")
EchoEvaluated ==
    /\ pc = "echo_evaluated"
    /\ stdout' = Append(stdout, "Evaluated")
    /\ pc' = "check_ext"
    /\ UNCHANGED <<ticket_url, output, environ, error, outfile, started,
                   fetched, exhausted, pulled, current, prev,
                   last_customer_response, evaluations, rt, wk, gens, again>>

\* assert os.path.splitext(out)[1] == ".csv"
CheckExt ==
    /\ pc = "check_ext"
    /\ IF splitext_ext(OutPath) = ".csv"
       THEN pc' = "open" /\ UNCHANGED <<error, outfile>>
       ELSE Raise("AssertionError")
    /\ UNCHANGED <<ticket_url, output, environ, stdout, started, fetched,
                   exhausted, pulled, current, prev, last_customer_response,
                   evaluations, rt, wk, gens, again>>

\* with open(out, "w") as outfile: the file is created or truncated
Open ==
    /\ pc = "open"
    /\ outfile' = [rows |-> <<>>, closed |-> FALSE]
    /\ pc' = "writeheader"
    /\ UNCHANGED <<ticket_url, output, environ, error, stdout, started,
                   fetched, exhausted, pulled, current, prev,
                   last_customer_response, evaluations, rt, wk, gens, again>>

\* w = csv.DictWriter(...); w.writeheader()
WriteHeader ==
    /\ pc = "writeheader"
    /\ outfile' = [outfile EXCEPT !.rows = Append(@, writeheader)]
    /\ pc' = "iter"
    /\ UNCHANGED <<ticket_url, output, environ, error, stdout, started,
                   fetched, exhausted, pulled, current, prev,
                   last_customer_response, evaluations, rt, wk, gens, again>>

\* for e in evaluated: Evaluate.__iter__ starts
Iter ==
    /\ pc = "iter"
    /\ prev' = None
    /\ last_customer_response' = None
    /\ pc' = "next"
    /\ UNCHANGED <<ticket_url, output, environ, error, stdout, outfile,
                   started, fetched, exhausted, pulled, current, evaluations,
                   rt, wk, gens, again>>

\* _zendesk_creds
_zendesk_creds == CredentialNames \subseteq environ

\* the first next(self.responses) starts the body of responses():
\* _zendesk_comments, _zendesk, _zendesk_creds
ZendeskComments ==
    /\ pc = "next"
    /\ ~started
    /\ IF _zendesk_creds
       THEN /\ started' = TRUE
            /\ UNCHANGED <<pc, error, outfile>>
       ELSE /\ Raise("KeyError")
            /\ UNCHANGED started
    /\ UNCHANGED <<ticket_url, output, environ, stdout, fetched, exhausted,
                   pulled, current, prev, last_customer_response, evaluations,
                   rt, wk, gens, again>>

\* next(self.responses) raises StopIteration: the Comment Source has no more
\* comments, responses() returns, Evaluate.__iter__ breaks and the for ends
SourceEnds ==
    /\ pc = "next"
    /\ started
    /\ exhausted' = TRUE
    /\ pc' = "close"
    /\ UNCHANGED <<ticket_url, output, environ, error, stdout, outfile,
                   started, fetched, pulled, current, prev,
                   last_customer_response, evaluations, rt, wk, gens, again>>

\* responses(): the Comment Source returns the comment c; an internal comment
\* is skipped, a public one becomes the Response that next() returns
FetchComment(c) ==
    /\ pc = "next"
    /\ started
    /\ Len(fetched) < MaxComments
    /\ fetched' = Append(fetched, c)
    /\ IF is_public(c)
       THEN IF ~IsIsoFormat(Chip(c.created_at))
            THEN /\ Raise("ValueError")
                 /\ UNCHANGED <<current, pulled>>
            ELSE LET r == Response(c.created_at, c.author, Len(fetched) + 1)
                 IN  /\ current' = r
                     /\ pulled' = Append(pulled, r)
                     /\ pc' = "pair"
                     /\ UNCHANGED <<error, outfile>>
       ELSE UNCHANGED <<pc, error, outfile, current, pulled>>
    /\ UNCHANGED <<ticket_url, output, environ, stdout, started, exhausted,
                   prev, last_customer_response, evaluations, rt, wk, gens, again>>

\* a condition that lost its "not"
IsFirstReply_NoNot(cur, prv) ==
    IF ~is_agent(cur.user) THEN "false"
    ELSE IF prv = None THEN "raise"
    ELSE IF is_agent(prv.user) THEN "true" ELSE "false"

\* a condition that forgets to look at the role of prev
IsFirstReply_AnyAgent(cur, prv) ==
    IF ~is_agent(cur.user) THEN "false"
    ELSE IF prv = None THEN "raise"
    ELSE "true"

\* the condition of the if: current.user.is_agent() and not prev.user.is_agent()
\* "raise" stands for the AttributeError of None.user
IsFirstReply(cur, prv) ==
    IF ~is_agent(cur.user) THEN "false"
    ELSE IF prv = None THEN "raise"
    ELSE IF ~is_agent(prv.user) THEN "true" ELSE "false"

\* an inner condition with a "not" too many: not prev or not prev.user.is_agent()
StartsRun_AfterCustomer(prv) == prv = None \/ ~is_agent(prv.user)

\* an inner condition that is only "not prev"
StartsRun_OnlyAtStart(prv) == prv = None

\* an inner if that is missing: every customer Response becomes the reference
StartsRun_Always(prv) == TRUE

\* the condition of the inner if: not prev or prev.user.is_agent()
StartsRun(prv) == prv = None \/ is_agent(prv.user)

\* one turn of the loop of Evaluate.__iter__, from resp_time = None to the
\* yield: whether it raises, the resp_time and the new last_customer_response
PairStep(cur, prv, lcr) ==
    LET cond == IsFirstReply(cur, prv)
    IN  IF cond = "raise" \/ (cond = "true" /\ lcr = None)
        THEN [raises |-> TRUE, resp_time |-> None, lcr |-> lcr]
        ELSE [raises    |-> FALSE,
              resp_time |-> IF cond = "true"
                            THEN ResponseTime(lcr.responded_at,
                                              cur.responded_at)
                            ELSE None,
              lcr       |-> IF ~is_agent(cur.user) /\ StartsRun(prv)
                            THEN cur
                            ELSE lcr]

\* a pairer that hands its Evaulations over newest first
Yield_Front(yielded, e) == <<e>> \o yielded

\* yield Evaulation(response=current, time_taken=resp_time)
Yield(yielded, e) == Append(yielded, e)

\* Evaluate.__iter__, from resp_time = None to the yield
Pair ==
    /\ pc = "pair"
    /\ LET step == PairStep(current, prev, last_customer_response)
       IN  IF step.raises
           THEN /\ Raise("AttributeError")
                /\ UNCHANGED <<last_customer_response, evaluations>>
           ELSE /\ evaluations' =
                      Yield(evaluations, Evaulation(current, step.resp_time))
                /\ last_customer_response' = step.lcr
                /\ pc' = "writerow"
                /\ UNCHANGED <<error, outfile>>
    /\ UNCHANGED <<ticket_url, output, environ, stdout, started, fetched,
                   exhausted, pulled, current, prev, rt, wk, gens, again>>

\* w.writerow(e.as_record())
WriteRow ==
    /\ pc = "writerow"
    /\ outfile' = [outfile EXCEPT !.rows =
                     Append(@, writerow(as_record(evaluations[Len(evaluations)])))]
    /\ pc' = "resume"
    /\ UNCHANGED <<ticket_url, output, environ, error, stdout, started,
                   fetched, exhausted, pulled, current, prev,
                   last_customer_response, evaluations, rt, wk, gens, again>>

\* the generator resumes after the yield: prev = current
Resume ==
    /\ pc = "resume"
    /\ prev' = current
    /\ pc' = "next"
    /\ UNCHANGED <<ticket_url, output, environ, error, stdout, outfile,
                   started, fetched, exhausted, pulled, current,
                   last_customer_response, evaluations, rt, wk, gens, again>>

\* the with block ends
Close ==
    /\ pc = "close"
    /\ outfile' = Closed(outfile)
    /\ pc' = "echo_generated"
    /\ UNCHANGED <<ticket_url, output, environ, error, stdout, started,
                   fetched, exhausted, pulled, current, prev,
                   last_customer_response, evaluations, rt, wk, gens, again>>

\* click.secho(f"Generated evaluated output: {out}")
EchoGenerated ==
    /\ pc = "echo_generated"
    /\ stdout' = Append(stdout, "Generated")
    /\ pc' = "done"
    /\ UNCHANGED <<ticket_url, output, environ, error, outfile, started,
                   fetched, exhausted, pulled, current, prev,
                   last_customer_response, evaluations, rt, wk, gens, again>>

Next ==
    \/ FromUrl
    \/ EchoEvaluating
    \/ Construct
    \/ EchoEvaluated
    \/ CheckExt
    \/ Open
    \/ WriteHeader
    \/ Iter
    \/ ZendeskComments
    \/ SourceEnds
    \/ \E c \in Comments : FetchComment(c)
    \/ Pair
    \/ WriteRow
    \/ Resume
    \/ Close
    \/ EchoGenerated

Spec == Init /\ [][Next]_vars

(***************************************************************************)
(* ResponseTime.weekends on its own                                        *)
(***************************************************************************)
Hours == 0 .. (MaxDay * HoursPerDay - 1)

InitWeekends ==
    /\ ticket_url = <<>>
    /\ output = None
    /\ environ = {}
    /\ pc = "weekends"
    /\ error = ""
    /\ stdout = <<>>
    /\ outfile = None
    /\ started = FALSE
    /\ fetched = <<>>
    /\ exhausted = FALSE
    /\ pulled = <<>>
    /\ current = None
    /\ prev = None
    /\ last_customer_response = None
    /\ evaluations = <<>>
    /\ \E asked_at \in Hours, answered_at \in Hours :
          rt = ResponseTime(asked_at, answered_at)
    /\ wk = None
    /\ gens = <<>>
    /\ again = None

\* list(rt.weekends())
CallWeekends ==
    /\ pc = "weekends"
    /\ wk = None
    /\ wk' = [dates |-> weekends(rt)]
    /\ UNCHANGED <<cliVars, rt, gens, again>>

NextWeekends == CallWeekends

SpecWeekends == InitWeekends /\ [][NextWeekends]_vars

(***************************************************************************)
(* The pairer and the report as functions of the whole comment list        *)
(***************************************************************************)
\* Evaluate.__iter__ run to its end on responses[i..]: the Evaulations it
\* yields (it stops at the turn that raises)
RECURSIVE EvaluateFrom(_, _, _, _, _)
EvaluateFrom(responses, i, prv, lcr, yielded) ==
    IF i > Len(responses)
    THEN yielded
    ELSE LET step == PairStep(responses[i], prv, lcr)
         IN  IF step.raises
             THEN yielded
             ELSE EvaluateFrom(responses, i + 1, responses[i], step.lcr,
                     Yield(yielded, Evaulation(responses[i], step.resp_time)))

\* list(Evaluate(iter(responses)))
EvaluateAll(responses) == EvaluateFrom(responses, 1, None, None, <<>>)

(***************************************************************************)
(* The pairer on a customer message and an agent reply of any two instants *)
(***************************************************************************)
InitReply ==
    /\ ticket_url = <<>>
    /\ output = None
    /\ environ = {}
    /\ pc = "reply"
    /\ error = ""
    /\ stdout = <<>>
    /\ outfile = None
    /\ started = FALSE
    /\ fetched = <<>>
    /\ exhausted = FALSE
    /\ \E asked \in Hours, answered \in Hours :
       \E customer \in {a \in Authors : ~is_agent(a)},
          agent \in {a \in Authors : is_agent(a)} :
          pulled = << Response(WellFormed(asked), customer, 1),
                      Response(WellFormed(answered), agent, 2) >>
    /\ current = None
    /\ prev = None
    /\ last_customer_response = None
    /\ evaluations = <<>>
    /\ rt = None
    /\ wk = None
    /\ gens = <<>>
    /\ again = None

\* list(Evaluate(iter(pulled))), then list(time_taken.weekends()) of the last
\* Evaulation when it carries a ResponseTime
EvaluateReply ==
    /\ pc = "reply"
    /\ LET es == EvaluateAll(pulled)
       IN  /\ evaluations' = es
           /\ wk' = IF es # <<>> /\ es[Len(es)].time_taken # None
                    THEN [dates |-> weekends(es[Len(es)].time_taken)]
                    ELSE None
    /\ pc' = "replied"
    /\ UNCHANGED <<ticket_url, output, environ, error, stdout, outfile,
                   started, fetched, exhausted, pulled, current, prev,
                   last_customer_response, rt, gens, again>>

NextReply == EvaluateReply

SpecReply == InitReply /\ [][NextReply]_vars

(***************************************************************************)
(* ResponseTime.weekends as generators: every call returns a generator     *)
(* with its own i; a step is one turn of its for loop.  A generator        *)
(* records in "after" how many turns the first generator had taken when it *)
(* was created.                                                            *)
(***************************************************************************)
RestartHours ==
    (4 * HoursPerDay) .. ((4 + MaxRestartDay) * HoursPerDay - 1)

InitRestart ==
    /\ ticket_url = <<>>
    /\ output = None
    /\ environ = {}
    /\ pc = "restart"
    /\ error = ""
    /\ stdout = <<>>
    /\ outfile = None
    /\ started = FALSE
    /\ fetched = <<>>
    /\ exhausted = FALSE
    /\ pulled = <<>>
    /\ current = None
    /\ prev = None
    /\ last_customer_response = None
    /\ evaluations = <<>>
    /\ \E asked_at \in RestartHours, answered_at \in RestartHours :
          rt = ResponseTime(asked_at, answered_at)
    /\ wk = None
    /\ gens = <<>>
    /\ again = None

\* a generator that takes up where the generator before it is
NewGen_Shared(existing) ==
    [i       |-> IF existing = <<>> THEN 0 ELSE existing[Len(existing)].i,
     yielded |-> <<>>,
     done    |-> FALSE,
     after   |-> IF existing = <<>> THEN 0 ELSE existing[1].i]

\* the generator that a call of weekends() returns
NewGen(existing) ==
    [i       |-> 0,
     yielded |-> <<>>,
     done    |-> FALSE,
     after   |-> IF existing = <<>> THEN 0 ELSE existing[1].i]

\* one turn of the for loop of the generator g of r.weekends()
Turn(g, r) ==
    IF g.i >= days(r.duration) + 1
    THEN [g EXCEPT !.done = TRUE]
    ELSE LET dt == r.asked_at + g.i * HoursPerDay
             is_a_weekend == weekday(dt) >= 5
         IN  [g EXCEPT !.i = @ + 1,
                       !.yielded = IF is_a_weekend
                                   THEN Append(@, date(dt))
                                   ELSE @]

\* rt.weekends() is called
CallGen ==
    /\ pc = "restart"
    /\ Len(gens) < 2
    /\ gens' = Append(gens, NewGen(gens))
    /\ UNCHANGED <<cliVars, rt, wk, again>>

\* the k-th generator is advanced
StepGen(k) ==
    /\ pc = "restart"
    /\ k \in 1..Len(gens)
    /\ ~gens[k].done
    /\ gens' = [gens EXCEPT ![k] = Turn(gens[k], rt)]
    /\ UNCHANGED <<cliVars, rt, wk, again>>

NextRestart ==
    \/ CallGen
    \/ \E k \in 1..2 : StepGen(k)

SpecRestart == InitRestart /\ [][NextRestart]_vars

(***************************************************************************)
(* A caller that iterates the Evaluate object once more after cli          *)
(***************************************************************************)
\* a source that is a list, which gives its Responses to every iteration
SourceRest_Replay == pulled

\* what next(self.responses) still returns once responses() has raised
\* StopIteration: nothing, a generator that has ended stays ended
SourceRest == <<>>

\* list(evaluated) after the for loop of cli has ended: a new run of
\* Evaluate.__iter__ on the same self.responses
IterAgain ==
    /\ pc = "done"
    /\ exhausted
    /\ prev' = None
    /\ last_customer_response' = None
    /\ again' = [evaluations |-> EvaluateAll(SourceRest)]
    /\ pc' = "done_again"
    /\ UNCHANGED <<ticket_url, output, environ, error, stdout, outfile,
                   started, fetched, exhausted, pulled, current, evaluations,
                   rt, wk, gens>>

NextAgain ==
    \/ Next
    \/ IterAgain

SpecAgain == Init /\ [][NextAgain]_vars

(***************************************************************************)
(* Notions the properties are stated with                                  *)
(***************************************************************************)
IsCustomer(r) == ~is_agent(r.user)
IsAgent(r) == is_agent(r.user)

\* the first position of the maximal run of customer Responses that holds i
RECURSIVE RunStart(_, _)
RunStart(rs, i) ==
    IF i > 1 /\ IsCustomer(rs[i - 1]) THEN RunStart(rs, i - 1) ELSE i

\* the iteration of Evaluate has ended: normally, or by raising in the pairer
IterationOver ==
    \/ pc \in {"close", "echo_generated", "done"}
    \/ (pc = "failed" /\ error = "AttributeError")

\* the public comments of a comment list, in order
PublicOnly(comments) == SelectSeq(comments, LAMBDA c : c.public)

\* the comments before the first whose timestamp does not parse
RECURSIVE Parseable(_)
Parseable(comments) ==
    IF comments = <<>> \/ ~IsIsoFormat(Chip(Head(comments).created_at))
    THEN <<>>
    ELSE <<Head(comments)>> \o Parseable(Tail(comments))

\* the rows of the report of a list of comments that are all public
RowsOfPublic(comments) ==
    LET rs == [i \in 1..Len(comments) |->
                  Response(comments[i].created_at, comments[i].author, i)]
        es == EvaluateAll(rs)
    IN  [i \in 1..Len(es) |-> writerow(as_record(es[i]))]

\* the data rows of the output file
DataRows == IF outfile = None \/ outfile.rows = <<>> THEN <<>>
            ELSE Tail(outfile.rows)

\* the weekend dates d1 <= d <= d2, ascending
WeekendDatesBetween(d1, d2) ==
    SelectSeq([i \in 1..(d2 - d1 + 1) |-> d1 + i - 1], LAMBDA d : d % 7 >= 5)

(***************************************************************************)
(* Properties                                                              *)
(***************************************************************************)

\* C1: whenever the iteration of Evaluate is over, it has yielded as many
\* Evaulations as Responses were pulled from the source, for every input
\* (a first Response from an agent included).
C1_OneEvaluationPerResponse ==
    IterationOver => Len(evaluations) = Len(pulled)

\* C2 (as stated): for consecutive Responses r[i] from a customer and r[i+1]
\* from an agent, the Evaulation of r[i+1] carries a ResponseTime with
\* asked_at = r[i].responded_at and answered_at = r[i+1].responded_at.
C2_AskedAtIsPrecedingCustomer ==
    \A i \in 1..(Len(evaluations) - 1) :
        (IsCustomer(pulled[i]) /\ IsAgent(pulled[i + 1])) =>
            LET tt == evaluations[i + 1].time_taken
            IN  /\ tt # None
                /\ tt.asked_at = pulled[i].responded_at
                /\ tt.answered_at = pulled[i + 1].responded_at

\* C2 (amended): for consecutive Responses r[i] from a customer and r[i+1]
\* from an agent, the Evaulation yielded for r[i+1] carries a ResponseTime
\* with answered_at = r[i+1].responded_at and asked_at = the responded_at of
\* the first Response of the customer run that ends at r[i].
C2_AskedAtIsRunStart ==
    \A i \in 1..(Len(evaluations) - 1) :
        (IsCustomer(pulled[i]) /\ IsAgent(pulled[i + 1])) =>
            LET tt == evaluations[i + 1].time_taken
            IN  /\ tt # None
                /\ tt.asked_at = pulled[RunStart(pulled, i)].responded_at
                /\ tt.answered_at = pulled[i + 1].responded_at

\* a reply to a customer whose message follows another customer message with
\* a different timestamp has been evaluated
C2_Witness ==
    \E i \in 2..(Len(evaluations) - 1) :
        /\ IsCustomer(pulled[i - 1])
        /\ IsCustomer(pulled[i])
        /\ IsAgent(pulled[i + 1])
        /\ pulled[i - 1].responded_at # pulled[i].responded_at
        /\ evaluations[i + 1].time_taken # None

\* C3: in every turn of the pairer, a customer Response that follows a
\* customer Response leaves last_customer_response as it is, and an agent
\* Response that follows a customer run is measured from the first Response
\* of that run (last_customer_response is that very Response).
C3_FirstOfRunIsReference ==
    [][(pc = "pair" /\ pc' = "writerow") =>
          LET j == Len(pulled)
          IN  /\ (IsCustomer(current) /\ j > 1 /\ IsCustomer(pulled[j - 1]))
                    => last_customer_response' = last_customer_response
              /\ (IsAgent(current) /\ j > 1 /\ IsCustomer(pulled[j - 1]))
                    => /\ last_customer_response =
                              pulled[RunStart(pulled, j - 1)]
                       /\ evaluations'[j].time_taken.asked_at =
                              pulled[RunStart(pulled, j - 1)].responded_at
      ]_vars

\* two customer messages with different timestamps, then an agent reply that
\* has just been measured from the first
C3_Witness ==
    /\ pc = "writerow"
    /\ Len(pulled) = 3
    /\ IsCustomer(pulled[1]) /\ IsCustomer(pulled[2]) /\ IsAgent(pulled[3])
    /\ pulled[1].responded_at # pulled[2].responded_at
    /\ Len(evaluations) = 3
    /\ evaluations[3].time_taken # None
    /\ evaluations[3].time_taken.asked_at = pulled[1].responded_at
    /\ last_customer_response.oid = pulled[1].oid

\* C4: in a run of agent Responses that follows a customer Response, the
\* Evaulation of the first carries a ResponseTime and no later one does; and
\* a ResponseTime is always measured from a customer Response that is later
\* than every agent Response measured before, so that no customer Response is
\* the asked_at of two ResponseTimes.
C4_OneMeasurementPerGap ==
    /\ [](\A j \in 2..Len(evaluations) :
            (IsAgent(pulled[j]) /\ IsCustomer(pulled[j - 1])) =>
                /\ evaluations[j].time_taken # None
                /\ \A k \in (j + 1)..Len(evaluations) :
                      (\A m \in j..k : IsAgent(pulled[m])) =>
                          evaluations[k].time_taken = None)
    /\ [][(pc = "pair" /\ pc' = "writerow"
             /\ evaluations'[Len(evaluations')].time_taken # None) =>
             \A k \in 1..Len(evaluations) :
                 evaluations[k].time_taken # None =>
                     evaluations[k].response.oid < last_customer_response.oid
         ]_vars

\* a customer message and two agent replies have been evaluated
C4_Witness ==
    \E j \in 2..(Len(evaluations) - 1) :
        /\ IsCustomer(pulled[j - 1])
        /\ IsAgent(pulled[j])
        /\ IsAgent(pulled[j + 1])
        /\ evaluations[j].time_taken # None
        /\ evaluations[j + 1].time_taken = None

\* C5: when the first Response is from an agent, the pairer does not fail:
\* once its turn is over there is an Evaulation for it, without ResponseTime.
C5_AgentFirstIsEvaluated ==
    (pulled # <<>> /\ IsAgent(pulled[1]) /\ pc # "pair") =>
        /\ error # "AttributeError"
        /\ Len(evaluations) >= 1
        /\ evaluations[1].response = pulled[1]
        /\ evaluations[1].time_taken = None

\* C6: the i-th Evaulation wraps the i-th Response pulled from the source,
\* which is the Response of the i-th public comment, and a Response is pulled
\* only when every Response before it has its Evaulation.
C6_InputOrder ==
    /\ Len(evaluations) <= Len(pulled)
    /\ Len(pulled) <= Len(evaluations) + 1
    /\ (Len(pulled) = Len(evaluations) + 1) => pc \in {"pair", "failed"}
    /\ \A i \in 1..Len(evaluations) : evaluations[i].response = pulled[i]
    /\ \A i \in 1..Len(pulled) :
          /\ fetched[pulled[i].oid].public
          /\ pulled[i].created_at = fetched[pulled[i].oid].created_at
          /\ Cardinality({k \in 1..pulled[i].oid : fetched[k].public}) = i

\* the third Response has been pulled, after two Evaulations were yielded for
\* two different Responses
C6_Witness ==
    /\ pc = "pair"
    /\ Len(pulled) = 3
    /\ Len(evaluations) = 2
    /\ evaluations[1].response.responded_at # evaluations[2].response.responded_at

\* C7: the data rows of the output file are the first rows of the report of
\* the public comments alone, all of them once the run is over; and a step
\* that fetches an internal comment changes neither the pairer nor the file.
C7_OnlyPublicComments ==
    /\ [](LET ref == RowsOfPublic(Parseable(PublicOnly(fetched)))
          IN  /\ Len(DataRows) <= Len(ref)
              /\ \A i \in 1..Len(DataRows) : DataRows[i] = ref[i]
              /\ (outfile # None /\ pc \in {"done", "failed"})
                    => Len(DataRows) = Len(ref))
    /\ [][(Len(fetched') > Len(fetched) /\ ~fetched'[Len(fetched')].public) =>
             UNCHANGED <<current, prev, last_customer_response, pulled,
                         evaluations, outfile>>
         ]_vars

\* a customer message, an internal note of an agent and a public agent reply:
\* the run is over and the reply's row holds a response time
C7_Witness ==
    /\ pc = "done"
    /\ Len(fetched) = 3
    /\ fetched[1].public /\ ~is_agent(fetched[1].author)
    /\ ~fetched[2].public /\ is_agent(fetched[2].author)
    /\ fetched[3].public /\ is_agent(fetched[3].author)
    /\ Len(DataRows) = 2
    /\ DataRows[2][4] # <<>>

\* C8: for answered_at >= asked_at, weekends() yields the weekend dates d with
\* date(asked_at) <= d <= date(answered_at), ascending.
C8_WeekendsOfTheSpan ==
    (wk # None /\ rt.answered_at >= rt.asked_at) =>
        wk.dates = WeekendDatesBetween(date(rt.asked_at), date(rt.answered_at))

\* the input of C9: a customer on Friday 17:00, an agent on Monday 09:00
C9_Scenario ==
    /\ Len(pulled) = 2
    /\ IsCustomer(pulled[1]) /\ pulled[1].responded_at = Fri17
    /\ IsAgent(pulled[2]) /\ pulled[2].responded_at = Mon09
    /\ Len(evaluations) = 2

\* C9 (as stated): the ResponseTime of that input lasts 63 hours and its
\* weekend dates are that Saturday and that Sunday.
C9_SixtyThreeHours ==
    C9_Scenario =>
        /\ evaluations[1].time_taken = None
        /\ evaluations[2].time_taken # None
        /\ evaluations[2].time_taken.duration = 63
        /\ weekends(evaluations[2].time_taken)
              = <<date(Fri17) + 1, date(Fri17) + 2>>

\* C9 (amended): the ResponseTime of that input lasts 64 hours (2 days 16
\* hours) and its weekend dates are that Saturday and that Sunday.
C9_SixtyFourHours ==
    C9_Scenario =>
        /\ evaluations[1].time_taken = None
        /\ evaluations[2].time_taken # None
        /\ evaluations[2].time_taken.duration = 2 * HoursPerDay + 16
        /\ weekends(evaluations[2].time_taken)
              = <<date(Fri17) + 1, date(Fri17) + 2>>

\* the Friday-to-Monday input has been evaluated and its row is written
C9_Witness ==
    /\ C9_Scenario
    /\ pc = "done"
    /\ Len(DataRows) = 2

\* C10: a run that fails on a missing credential has not opened the output
\* file (and so has written no header).
C10_CredentialsBeforeOutput ==
    (pc = "failed" /\ error = "KeyError") => outfile = None

\* C11: a run that fails on a comment timestamp that does not parse has
\* written nothing to the output file, neither header nor data row.
C11_ParseErrorBeforeCsv ==
    (pc = "failed" /\ error = "ValueError") =>
        (outfile = None \/ outfile.rows = <<>>)

\* C12: in a run whose --output has an extension other than .csv, at no time
\* is the output file opened, are the credentials read, is the body of
\* responses() started or is a comment fetched.
C12_ExtensionBeforeAnyWork ==
    (output # None /\ output.ext # ".csv") =>
        /\ outfile = None
        /\ ~started
        /\ error # "KeyError"
        /\ fetched = <<>>
        /\ pulled = <<>>
        /\ pc \in {"from_url", "echo_evaluating", "construct",
                   "echo_evaluated", "check_ext", "failed"}

\* a run with a valid URL and --output report.txt has failed on the assertion
C12_Witness ==
    /\ pc = "failed"
    /\ error = "AssertionError"
    /\ PATH_EXPRESSION(ticket_url)
    /\ output # None
    /\ output.ext = ".txt"
    /\ stdout = <<"Evaluating", "Evaluated">>

\* C13: the record of every Evaulation has the keys email, user type and
\* commented at, and has the keys formula, weekends and response time exactly
\* when the Evaulation carries a ResponseTime, whatever its duration; the row
\* written for an Evaulation without ResponseTime has its last three cells
\* empty.
C13_RecordKeys ==
    /\ \A i \in 1..Len(evaluations) :
          LET keys == DOMAIN as_record(evaluations[i])
          IN  /\ {"email", "user type", "commented at"} \subseteq keys
              /\ keys \subseteq {FIELDS[k] : k \in 1..Len(FIELDS)}
              /\ \A k \in {"formula", "weekends", "response time"} :
                    k \in keys <=> evaluations[i].time_taken # None
    /\ \A i \in 1..Len(DataRows) :
          evaluations[i].time_taken = None =>
              DataRows[i][4] = <<>> /\ DataRows[i][5] = <<>>
                  /\ DataRows[i][6] = <<>>

\* the rows of a customer message and of an agent reply whose ResponseTime is
\* not positive are written
C13_Witness ==
    /\ Len(DataRows) >= 2
    /\ evaluations[1].time_taken = None
    /\ evaluations[2].time_taken # None
    /\ evaluations[2].time_taken.duration <= 0
    /\ DataRows[1][4] = <<>>
    /\ DataRows[2][6] # <<>>

\* C14: an Evaulation carries a ResponseTime exactly when its Response is from
\* an agent and the Response before it exists and is from a customer.
C14_MeasuredIffFirstReply ==
    \A j \in 1..Len(evaluations) :
        evaluations[j].time_taken # None
            <=> (IsAgent(pulled[j]) /\ j > 1 /\ IsCustomer(pulled[j - 1]))

\* customer, agent, customer have been evaluated: only the agent is measured
C14_Witness ==
    /\ Len(evaluations) >= 3
    /\ IsCustomer(pulled[1]) /\ IsAgent(pulled[2]) /\ IsCustomer(pulled[3])
    /\ evaluations[1].time_taken = None
    /\ evaluations[2].time_taken # None
    /\ evaluations[3].time_taken = None

\* C15: when the agent's reply is stamped earlier than the customer message
\* it follows, the pairer still yields both Evaulations, the reply's carries
\* a ResponseTime of negative duration, and its weekends() yields no date.
C15_NegativeDurationPassesThrough ==
    (pc = "replied" /\ pulled[2].responded_at < pulled[1].responded_at) =>
        /\ Len(evaluations) = 2
        /\ evaluations[2].response = pulled[2]
        /\ evaluations[2].time_taken # None
        /\ evaluations[2].time_taken.asked_at = pulled[1].responded_at
        /\ evaluations[2].time_taken.answered_at = pulled[2].responded_at
        /\ evaluations[2].time_taken.duration < 0
        /\ wk # None
        /\ wk.dates = <<>>

\* a customer message of a Sunday answered by a reply stamped on the Saturday
\* before it: two weekend days, and no weekend date
C15_Witness ==
    /\ pc = "replied"
    /\ weekday(pulled[1].responded_at) = 6
    /\ weekday(pulled[2].responded_at) = 5
    /\ pulled[2].responded_at < pulled[1].responded_at
    /\ evaluations[2].time_taken # None
    /\ wk # None
    /\ wk.dates = <<>>

\* the sequence p is the beginning of the sequence q
IsPrefix(p, q) == Len(p) <= Len(q) /\ SubSeq(q, 1, Len(p)) = p

\* C16: two generators of weekends() of the same ResponseTime, however their
\* steps interleave, yield the same dates: the one that is less far has
\* yielded a beginning of what the other has, and two finished ones have
\* yielded the same list; and a finished generator has yielded nothing when
\* asked_at and answered_at are on the same day and that day is no weekend day.
C16_Restartable ==
    /\ \A k \in 1..Len(gens) : \A m \in 1..Len(gens) :
          /\ gens[k].i <= gens[m].i =>
                IsPrefix(gens[k].yielded, gens[m].yielded)
          /\ (gens[k].done /\ gens[m].done) =>
                gens[k].yielded = gens[m].yielded
    /\ \A k \in 1..Len(gens) :
          (gens[k].done /\ date(rt.asked_at) = date(rt.answered_at)
                        /\ weekday(rt.asked_at) < 5)
              => gens[k].yielded = <<>>

\* weekends() was called again when the first generator was part of its way,
\* and both generators have finished with a Saturday and a Sunday
C16_Witness ==
    /\ Len(gens) = 2
    /\ gens[1].done /\ gens[2].done
    /\ gens[2].after >= 1
    /\ gens[2].after < days(rt.duration) + 1
    /\ Len(gens[1].yielded) = 2
    /\ Len(gens[2].yielded) = 2

\* C17: "Evaluating" is on stdout before a comment is fetched or paired, and
\* "Evaluated" is on stdout only when the Comment Source has ended and every
\* Response pulled has its Evaulation.
C17_MessagesBracketEvaluation ==
    /\ (started \/ fetched # <<>> \/ evaluations # <<>>) =>
          \E i \in 1..Len(stdout) : stdout[i] = "Evaluating"
    /\ (\E i \in 1..Len(stdout) : stdout[i] = "Evaluated") =>
          /\ exhausted
          /\ Len(evaluations) = Len(pulled)

\* the position in pulled of the Response r
PosOf(r) == CHOOSE k \in 1..Len(pulled) : pulled[k].oid = r.oid

\* C18: whenever prev is a customer Response, last_customer_response is set
\* and is the first Response of the customer run that prev is in; and the
\* pairer raises AttributeError only on a prev that is None.
C18_ReferenceIsSet ==
    /\ (prev # None /\ IsCustomer(prev)) =>
          /\ last_customer_response # None
          /\ IsCustomer(last_customer_response)
          /\ last_customer_response.oid
                = pulled[RunStart(pulled, PosOf(prev))].oid
    /\ (pc = "failed" /\ error = "AttributeError") =>
          (prev = None /\ IsAgent(current))

\* customer, agent, customer, customer: prev is the fourth Response and the
\* reference is the third
C18_Witness ==
    /\ pc = "next"
    /\ Len(pulled) = 4
    /\ IsCustomer(pulled[1]) /\ IsAgent(pulled[2])
    /\ IsCustomer(pulled[3]) /\ IsCustomer(pulled[4])
    /\ prev = pulled[4]
    /\ last_customer_response = pulled[3]

\* the Responses pulled so far are in non-decreasing chronological order
Chronological ==
    \A i \in 1..(Len(pulled) - 1) :
        pulled[i].responded_at <= pulled[i + 1].responded_at

\* C19: when the Responses are in non-decreasing chronological order and the
\* first is from a customer, every ResponseTime has answered_at >= asked_at,
\* and its asked_at is the timestamp of a customer Response before the agent
\* Response it is attached to, with customer Responses only in between.
C19_OrderedInputNonNegative ==
    (pulled # <<>> /\ IsCustomer(pulled[1]) /\ Chronological) =>
        \A j \in 1..Len(evaluations) :
            LET tt == evaluations[j].time_taken
            IN  tt # None =>
                  /\ tt.answered_at >= tt.asked_at
                  /\ tt.duration >= 0
                  /\ tt.answered_at = pulled[j].responded_at
                  /\ \E k \in 1..(j - 1) :
                        /\ tt.asked_at = pulled[k].responded_at
                        /\ \A m \in k..(j - 1) : IsCustomer(pulled[m])

\* customer on Friday, customer on Monday, agent on Monday: the reply has a
\* ResponseTime of positive duration
C19_Witness ==
    /\ Len(evaluations) = 3
    /\ Chronological
    /\ IsCustomer(pulled[1]) /\ IsCustomer(pulled[2]) /\ IsAgent(pulled[3])
    /\ pulled[1].responded_at < pulled[2].responded_at
    /\ evaluations[3].time_taken # None
    /\ evaluations[3].time_taken.duration > 0

\* C20: every public comment that parses is pulled exactly once, in order;
\* the k-th Evaulation is yielded when exactly k Responses have been pulled,
\* in a step that pulls and fetches nothing; and a second iteration of the
\* Evaluate, after the first has ended, yields no Evaulation.
C20_SinglePass ==
    /\ [](/\ \A i \in 1..Len(pulled) : \A j \in 1..Len(pulled) :
                i < j => pulled[i].oid < pulled[j].oid
          /\ \A k \in 1..Len(fetched) :
                (fetched[k].public /\ IsIsoFormat(Chip(fetched[k].created_at)))
                    => Cardinality({i \in 1..Len(pulled) :
                                        pulled[i].oid = k}) = 1
          /\ (again # None => again.evaluations = <<>>))
    /\ [][evaluations' # evaluations =>
             /\ Len(evaluations') = Len(evaluations) + 1
             /\ Len(evaluations') = Len(pulled)
             /\ pulled' = pulled
             /\ fetched' = fetched
         ]_vars

\* a run with three Evaulations has been iterated a second time
C20_Witness ==
    /\ pc = "done_again"
    /\ Len(evaluations) = 3
    /\ Len(pulled) = 3
    /\ again # None
    /\ again.evaluations = <<>>

====
